---- MODULE Spec2Model ----
(***************************************************************************)
(* Payment allocation and invoice reconciliation ledger of Hotel-AR.       *)
(*                                                                         *)
(* The database tables invoices, payments, allocations and invoice_audit   *)
(* are the shared state; the browser pages keep their own copies of what   *)
(* they loaded (the record-payment form, the invoices list).  Money is     *)
(* counted in thousandths (0.001), ten to the cent.  The amount inputs of   *)
(* the pages have step="0.01" and the ledger specifications enter whole     *)
(* cents; the prompt of updateTotal takes any number, and SpecForm enters   *)
(* totals that are not whole cents.  The 1e-6 tolerance of onSubmit is      *)
(* below a thousandth and never decides a comparison.                       *)
(*                                                                         *)
(* Every handler runs to completion as one step; each request it sends to  *)
(* the database may fail, which is a nondeterministic outcome of the step. *)
(* What a user does between loading a page and pressing a button is a      *)
(* sequence of separate steps, so other callers act in between.            *)
(***************************************************************************)
EXTENDS Integers, Sequences, FiniteSets, TLC

\* ---------------------------------------------------------------- bounds
MaxInvoices == 2
MaxPayments == 2
MaxAmount   == 2
MaxAudit    == 1
MaxTrail    == 2
MaxLedgerInvoices == 1

\* the callers that have the record-payment page open: one in Spec, both in
\* SpecRace
Callers    == {"c1"}
AllCallers == {"c1", "c2"}
InvoiceIds == 1..MaxInvoices
PaymentIds == 1..MaxPayments
\* 0.01 in thousandths: what toFixed(2) rounds to
CentUnits  == 10
Cents(n)   == n * CentUnits
Amounts    == {Cents(a) : a \in 0..MaxAmount}
\* what can be typed into an allocation input: below 0 and above any balance
TypedAmounts == {Cents(a) : a \in (-1)..(MaxAmount + 1)}

VARIABLES
    invoices,       \* table invoices: id -> row
    payments,       \* table payments: id -> row
    allocations,    \* table allocations: set of rows
    audit,          \* table invoice_audit, oldest first
    form,           \* record-payment page of each caller
    rows,           \* invoices page: the list loaded by fetchRows
    aging,          \* aging report page: what it loaded and its hotel filter
    inflight,       \* handlers between two of their requests
    members,        \* tables members and member_hotels: the acting user's rows
    expenses,       \* table expenses and the response of the last POST
    gate,           \* payments page: the access gate
    client          \* what the dashboard and the expenses page resolved

vars == <<invoices, payments, allocations, audit, form, rows, aging,
          inflight, members, expenses, gate, client>>

\* the access side of the application, which the ledger pages leave alone
accessVars == <<members, expenses, gate, client>>

\* ------------------------------------------------------------ helpers
Max(a, b) == IF a >= b THEN a ELSE b
Min(a, b) == IF a <= b THEN a ELSE b

RECURSIVE SumAmounts(_)
SumAmounts(S) ==
    IF S = {} THEN 0
    ELSE LET r == CHOOSE x \in S : TRUE IN r.amount + SumAmounts(S \ {r})

RECURSIVE SumFn(_)
SumFn(f) ==
    IF DOMAIN f = {} THEN 0
    ELSE LET k == CHOOSE x \in DOMAIN f : TRUE
         IN f[k] + SumFn([j \in DOMAIN f \ {k} |-> f[j]])

EmptyFn == [x \in {} |-> 0]

\* invoices.total is the generated column subtotal + tax
total(inv) == inv.subtotal + inv.tax

AllocationsOfInvoice(id) == {a \in allocations : a.invoice_id = id}
AllocationsOfPayment(id) == {a \in allocations : a.payment_id = id}

\* select amount from allocations where invoice_id = id, summed
allocatedSum(id) == SumAmounts(AllocationsOfInvoice(id))

\* the page before it is mounted and after router.replace left it
ClosedForm == [open |-> FALSE, invoices |-> EmptyFn, alloc |-> EmptyFn,
               err |-> FALSE]

\* after setErr the page renders only the error: no handler can run any more,
\* so the rest of its state is dropped
ErrForm == [ClosedForm EXCEPT !.open = TRUE, !.err = TRUE]

\* the aging report page before its effects have run; AllHotels is the 'all'
\* of the hotel filter, NoHotel the '' of a missing hotel_id
AllHotels == 0
NoHotel == -1
ClosedAging == [details |-> <<>>, invoiceMeta |-> EmptyFn, hotelId |-> AllHotels,
                hotels |-> {}, myHotelIds |-> {}]

\* no handler is between two requests: issued counts the payment ids given
\* out, submit holds the allocation rows an onSubmit has still to insert,
\* delete the payments whose allocations a deletePayment has deleted
NoRequests == [issued |-> 0, submit |-> [c \in AllCallers |-> {}], delete |-> {}]

\* the acting user has no members row and no member_hotels rows
NoMember == [role |-> "missing", hotels |-> {}]

\* no expense recorded, no request answered
NoExpenses == [table |-> <<>>, status |-> 0]

\* the payments page is not mounted
ClosedGate == [mounted |-> FALSE, allowed |-> "null", runs |-> <<>>]

\* the client pages before any of their effects has run: the dashboard starts
\* as front_desk with roleReady false, the gated pages with no role and
\* authLoading true, every myHotelIds empty; loaded records that the effect
\* that sets myHotelIds has set it
ClosedClient ==
    [dashboard |-> [role |-> "front_desk", roleReady |-> FALSE,
                    myHotelIds |-> {}, loaded |-> FALSE],
     expenses  |-> [role |-> "null", authLoading |-> TRUE,
                    myHotelIds |-> {}, loaded |-> FALSE],
     companies |-> [role |-> "null", authLoading |-> TRUE],
     aging     |-> [myHotelIds |-> {}, loaded |-> FALSE]]

\* ---------------------------------------------------------------- Init
Init ==
    /\ invoices = <<>>
    /\ payments = EmptyFn
    /\ allocations = {}
    /\ audit = <<>>
    /\ form = [c \in AllCallers |-> ClosedForm]
    /\ rows = EmptyFn
    /\ aging = ClosedAging
    /\ inflight = NoRequests
    /\ members = NoMember
    /\ expenses = NoExpenses
    /\ gate = ClosedGate
    /\ client = ClosedClient

\* ------------------------------------------------- invoices/new: onSubmit
\* previewTotal = max(0, nights * rate) is the subtotal; tax 0,
\* balance = subtotal, status open.
NewInvoiceRow(subtotal) ==
    [subtotal |-> Max(0, subtotal), tax |-> 0, balance |-> Max(0, subtotal),
     status |-> "open", deleted_at |-> FALSE]

CreateInvoice ==
    /\ Len(invoices) < MaxInvoices
    /\ \E previewTotal \in Amounts, insertOk \in BOOLEAN :
        /\ invoices' = IF insertOk THEN Append(invoices, NewInvoiceRow(previewTotal))
                       ELSE invoices
    /\ UNCHANGED <<payments, allocations, audit, form, rows, aging, inflight, accessVars>>

\* ------------------------------------------ payments/new: the payment form
\* {...prev, [id]: num}
SetKey(f, k, v) == [x \in DOMAIN f \cup {k} |-> IF x = k THEN v ELSE f[x]]

\* byId.get(id)?.balance ?? 0 and alloc[id] ?? 0
GetOr0(f, k) == IF k \in DOMAIN f THEN f[k] ELSE 0

\* Object.values(alloc).reduce((s, v) => s + (Number(v) || 0), 0)
allocatedTotal(f) == SumFn(f.alloc)

\* Math.max(0, (watchAmount || 0) - allocatedTotal)
remaining(f, watchAmount) == Max(0, watchAmount - allocatedTotal(f))

\* the invoices the form offers: not tombstoned, status <> paid, balance > 0
OpenInvoiceIds ==
    {i \in DOMAIN invoices :
        /\ ~invoices[i].deleted_at
        /\ invoices[i].status # "paid"
        /\ invoices[i].balance > 0}

\* the effect that loads the invoices when the page is mounted
LoadInvoices(c) ==
    /\ \E loadOk \in BOOLEAN :
        /\ form' = [form EXCEPT ![c] =
              IF loadOk
              THEN [ClosedForm EXCEPT !.open = TRUE,
                        !.invoices = [i \in OpenInvoiceIds |-> invoices[i].balance],
                        !.alloc = [i \in OpenInvoiceIds |-> 0]]
              ELSE ErrForm]
    /\ UNCHANGED <<invoices, payments, allocations, audit, rows, aging, inflight, accessVars>>

Usable(c) == form[c].open /\ ~form[c].err

ClampAlloc(num, bal) ==
    LET n1 == IF num < 0 THEN 0 ELSE num
    IN  IF n1 > bal THEN bal ELSE n1

setAllocFor(c, id, value) ==
    /\ Usable(c)
    /\ id \in DOMAIN form[c].invoices
    /\ LET bal == GetOr0(form[c].invoices, id)
           num == ClampAlloc(value, bal)
       IN form' = [form EXCEPT ![c].alloc = SetKey(@, id, num)]
    /\ UNCHANGED <<invoices, payments, allocations, audit, rows, aging, inflight, accessVars>>

clearAllocations(c) ==
    /\ Usable(c)
    /\ form' = [form EXCEPT ![c].alloc = [i \in DOMAIN @ |-> 0]]
    /\ UNCHANGED <<invoices, payments, allocations, audit, rows, aging, inflight, accessVars>>

\* x is an exact half of a cent above a whole cent
IsHalfCent(x) == 2 * (x % CentUnits) = CentUnits

\* Number(x.toFixed(2)) for x >= 0: the nearest whole cent; which way an exact
\* half goes depends on the binary value of x, so it is the caller's halfUp
toFixed2(x, halfUp) ==
    LET r == x % CentUnits
    IN  IF 2 * r < CentUnits THEN x - r
        ELSE IF 2 * r > CentUnits THEN x - r + CentUnits
        ELSE IF halfUp THEN x - r + CentUnits ELSE x - r

\* watchAmount is what the amount input holds when the button is pressed
allocateRemainingTo(c, id, watchAmount) ==
    /\ Usable(c)
    /\ id \in DOMAIN form[c].invoices
    /\ LET bal     == GetOr0(form[c].invoices, id)
           current == GetOr0(form[c].alloc, id)
           room    == Max(0, bal - current)
           add     == Min(room, remaining(form[c], watchAmount))
       IN IF room <= 0 \/ remaining(form[c], watchAmount) <= 0
          THEN form' = form
          ELSE \E halfUp \in BOOLEAN :
                 /\ IsHalfCent(current + add) \/ halfUp
                 /\ form' = [form EXCEPT ![c].alloc =
                                SetKey(@, id, toFixed2(current + add, halfUp))]
    /\ UNCHANGED <<invoices, payments, allocations, audit, rows, aging, inflight, accessVars>>

\* Object.entries(alloc).map(...).filter(r => r.amount > 0)
AllocationRows(alloc, newPaymentId) ==
    {[payment_id |-> newPaymentId, invoice_id |-> i, amount |-> alloc[i]] :
        i \in {j \in DOMAIN alloc : alloc[j] > 0}}

\* the check left out: every recording passes
OverAllocated_never(f, amount) == FALSE

\* the over-allocation check at the head of onSubmit (amounts are whole minor
\* thousandths, so "+ 1e-6" changes no comparison)
OverAllocated(f, amount) == allocatedTotal(f) > amount

\* rpc api_insert_payment: a new payments row under a fresh id
FreshPaymentId == CHOOSE p \in PaymentIds : p \notin DOMAIN payments

\* handleSubmit(onSubmit): values.amount is the amount input; paySchema lets
\* onSubmit run only with amount >= 0.01
onSubmit(c, amount) ==
    /\ Usable(c)
    /\ amount >= Cents(1)
    /\ Cardinality(DOMAIN payments) < MaxPayments
    /\ IF OverAllocated(form[c], amount)
       THEN \* alert('Allocated more than payment amount.')
            UNCHANGED <<payments, allocations, form>>
       ELSE \E paymentOk \in BOOLEAN, allocOk \in BOOLEAN :
            LET newRows == AllocationRows(form[c].alloc, FreshPaymentId) IN
            IF ~paymentOk
            THEN \* api_insert_payment failed: setErr
                 /\ allocOk
                 /\ form' = [form EXCEPT ![c] = ErrForm]
                 /\ UNCHANGED <<payments, allocations>>
            ELSE /\ payments' = SetKey(payments, FreshPaymentId, [amount |-> amount])
                 /\ IF newRows # {} /\ ~allocOk
                    THEN \* the payment row stays, setErr('Allocation failed')
                         /\ allocations' = allocations
                         /\ form' = [form EXCEPT ![c] = ErrForm]
                    ELSE \* router.replace('/invoices') leaves the page
                         /\ (newRows = {} => allocOk)
                         /\ allocations' = allocations \cup newRows
                         /\ form' = [form EXCEPT ![c] = ClosedForm]
    /\ UNCHANGED <<invoices, audit, rows, aging, inflight, accessVars>>

\* --------------------------------------------------- invoices: the list page
\* rows as fetchRows loads them: the invoices that are not tombstoned, each
\* with the total it had when it was loaded
LoadedRows == [i \in {j \in DOMAIN invoices : ~invoices[j].deleted_at} |->
                  total(invoices[i])]

\* a reload that fails only empties the list until the next reload; the
\* list is modelled as reloaded
fetchRows ==
    /\ rows' = LoadedRows
    /\ UNCHANGED <<invoices, payments, allocations, audit, form, aging, inflight, accessVars>>

\* the status updateTotal derives from the new total and the allocated sum
DeriveStatus(newTotal, paid) ==
    IF newTotal = 0 THEN "void"
    ELSE IF paid <= 0 THEN "open"
    ELSE IF paid < newTotal THEN "partial"
    ELSE "paid"

\* rpc log_invoice_event: one more row of invoice_audit
AuditEvent(id, action, details) ==
    [invoice_id |-> id, action |-> action, details |-> details]

\* the update without its deleted_at filter
RowMatches_any(id) == id \in DOMAIN invoices

\* update invoices set ... where id = :id and deleted_at is null
RowMatches(id) == id \in DOMAIN invoices /\ ~invoices[id].deleted_at

\* the row updateTotal writes: subtotal, tax, balance and status
UpdatedRow(row, newTotal, paid) ==
    [row EXCEPT !.subtotal = newTotal, !.tax = 0,
                !.balance = Max(0, newTotal - paid),
                !.status = DeriveStatus(newTotal, paid)]

\* requestsOk: the select of the allocations and the update of the invoice both
\* return without error; the result of log_invoice_event is not looked at
updateTotal(id, newTotal) ==
    /\ id \in DOMAIN rows
    /\ newTotal >= 0
    /\ \E requestsOk \in BOOLEAN, logOk \in BOOLEAN :
        IF ~requestsOk \/ ~RowMatches(id)
        THEN \* setErr(...) and return
             /\ logOk
             /\ UNCHANGED <<invoices, audit, rows>>
        ELSE /\ invoices' = [invoices EXCEPT ![id] =
                                UpdatedRow(@, newTotal, allocatedSum(id))]
             /\ audit' = IF logOk
                         THEN Append(audit, AuditEvent(id, "update_total",
                                  [old_total |-> rows[id], new_total |-> newTotal]))
                         ELSE audit
             /\ rows' = LoadedRows'
    /\ UNCHANGED <<payments, allocations, form, aging, inflight, accessVars>>

\* the delete without its invoice_id filter
AllocationsAfterVoid_all(id) == {}

\* delete from allocations where invoice_id = :id
AllocationsAfterVoid(id) == allocations \ AllocationsOfInvoice(id)

\* the row voidInvoice writes
VoidedRow(row) ==
    [row EXCEPT !.status = "void", !.subtotal = 0, !.tax = 0, !.balance = 0]

\* a void that also clears the earlier events of the invoice
AuditAfterVoid_purge(id, logOk) ==
    LET kept == SelectSeq(audit, LAMBDA e : e.invoice_id # id)
    IN  IF logOk THEN Append(kept, AuditEvent(id, "void_invoice", <<>>)) ELSE kept

\* rpc log_invoice_event with p_action 'void_invoice' and p_details {}: one
\* more row of invoice_audit when the call succeeds
AuditAfterVoid(id, logOk) ==
    IF logOk THEN Append(audit, AuditEvent(id, "void_invoice", <<>>)) ELSE audit

voidInvoice(id) ==
    /\ id \in DOMAIN rows
    /\ \E deleteOk \in BOOLEAN, updateOk \in BOOLEAN, logOk \in BOOLEAN :
        IF ~deleteOk
        THEN \* setErr(delErr.message) and return
             /\ updateOk /\ logOk
             /\ UNCHANGED <<invoices, allocations, audit, rows>>
        ELSE /\ allocations' = AllocationsAfterVoid(id)
             /\ IF ~updateOk \/ ~RowMatches(id)
                THEN \* the allocations are gone, the invoice row is as it was
                     /\ logOk
                     /\ UNCHANGED <<invoices, audit, rows>>
                ELSE /\ invoices' = [invoices EXCEPT ![id] = VoidedRow(@)]
                     /\ audit' = AuditAfterVoid(id, logOk)
                     /\ rows' = LoadedRows'
    /\ UNCHANGED <<payments, form, aging, inflight, accessVars>>

\* ------------------------------------------------------ payments: the list page
RemoveKey(f, k) == [x \in DOMAIN f \ {k} |-> f[x]]

deletePayment(id) ==
    /\ id \in DOMAIN payments
    /\ \E allocOk \in BOOLEAN, paymentOk \in BOOLEAN :
        IF ~allocOk
        THEN /\ paymentOk
             /\ UNCHANGED <<payments, allocations>>
        ELSE /\ allocations' = allocations \ AllocationsOfPayment(id)
             /\ payments' = IF paymentOk THEN RemoveKey(payments, id) ELSE payments
    /\ UNCHANGED <<invoices, audit, form, rows, aging, inflight, accessVars>>

\* --------------------------------------------------------------- the system
FormStep(c) ==
    \/ LoadInvoices(c)
    \/ \E id \in InvoiceIds, value \in TypedAmounts : setAllocFor(c, id, value)
    \/ clearAllocations(c)
    \/ \E id \in InvoiceIds, watchAmount \in Amounts :
            allocateRemainingTo(c, id, watchAmount)
    \/ \E amount \in Amounts : onSubmit(c, amount)

Next ==
    \/ CreateInvoice
    \/ \E c \in Callers : FormStep(c)
    \/ fetchRows
    \/ \E id \in InvoiceIds, newTotal \in Amounts :
            Len(audit) < MaxAudit /\ updateTotal(id, newTotal)
    \/ \E id \in InvoiceIds : Len(audit) < MaxAudit /\ voidInvoice(id)
    \/ \E id \in PaymentIds : deletePayment(id)

Spec == Init /\ [][Next]_vars

\* Two callers with the record-payment page open at the same time: each opens
\* it before any payment has been recorded, so whatever both record rests on
\* the balances they loaded then.
RaceLoad(c) ==
    /\ form[c] = ClosedForm
    /\ payments = EmptyFn
    /\ LoadInvoices(c)

RaceStep(c) ==
    \/ RaceLoad(c)
    \/ \E id \in InvoiceIds, value \in TypedAmounts : setAllocFor(c, id, value)
    \/ clearAllocations(c)
    \/ \E id \in InvoiceIds, watchAmount \in Amounts :
            allocateRemainingTo(c, id, watchAmount)
    \/ \E amount \in Amounts : onSubmit(c, amount)

NextRace ==
    \/ CreateInvoice
    \/ \E c \in AllCallers : RaceStep(c)

SpecRace == Init /\ [][NextRace]_vars

\* The ledger with a longer audit trail and with invoices being tombstoned.
\* No page of the application sets invoices.deleted_at; every query of the
\* pages filters on it, and the specification has invoices soft-deleted, so
\* the tombstoning is taken from there: the row stays, deleted_at is set.
TombstoneInvoice(id) ==
    /\ id \in DOMAIN invoices
    /\ ~invoices[id].deleted_at
    /\ invoices' = [invoices EXCEPT ![id].deleted_at = TRUE]
    /\ UNCHANGED <<payments, allocations, audit, form, rows, aging, inflight, accessVars>>

\* the record-payment page opened afresh, filled in and submitted
LedgerLoad(c) ==
    /\ form[c] = ClosedForm
    /\ LoadInvoices(c)

LedgerStep(c) ==
    \/ LedgerLoad(c)
    \/ \E id \in InvoiceIds, value \in Amounts \ {0} : setAllocFor(c, id, value)
    \/ \E amount \in Amounts : onSubmit(c, amount)

NextLedger ==
    \/ Len(invoices) < MaxLedgerInvoices /\ CreateInvoice
    \/ \E c \in Callers : LedgerStep(c)
    \/ fetchRows
    \/ \E id \in InvoiceIds, newTotal \in Amounts :
            Len(audit) < MaxTrail /\ updateTotal(id, newTotal)
    \/ \E id \in InvoiceIds : Len(audit) < MaxTrail /\ voidInvoice(id)
    \/ \E id \in PaymentIds : deletePayment(id)
    \/ \E id \in InvoiceIds : TombstoneInvoice(id)

SpecLedger == Init /\ [][NextLedger]_vars

\* ------------------------------------------- handlers request by request
\* onSubmit and deletePayment each send two requests; other callers act
\* between the two.  Payment ids are never given out twice.
\* the foreign key without its check
PaymentExists_unchecked(p) == TRUE

\* allocations_payment_id_fkey on insert: the payment row must exist
PaymentExists(p) == p \in DOMAIN payments

\* allocations_payment_id_fkey on delete: no allocation may reference the row
PaymentReferenced(p) == \E a \in allocations : a.payment_id = p

\* onSubmit up to and including rpc api_insert_payment
SubmitPayment(c, amount) ==
    /\ Usable(c)
    /\ inflight.submit[c] = {}
    /\ amount >= Cents(1)
    /\ inflight.issued < MaxPayments
    /\ IF OverAllocated(form[c], amount)
       THEN UNCHANGED <<payments, form, inflight>>
       ELSE \E paymentOk \in BOOLEAN :
            LET newPaymentId == inflight.issued + 1
                newRows == AllocationRows(form[c].alloc, newPaymentId)
            IN  IF ~paymentOk
                THEN /\ form' = [form EXCEPT ![c] = ErrForm]
                     /\ UNCHANGED <<payments, inflight>>
                ELSE /\ payments' = SetKey(payments, newPaymentId, [amount |-> amount])
                     /\ inflight' = [inflight EXCEPT !.issued = newPaymentId,
                                                     !.submit[c] = newRows]
                     /\ form' = IF newRows = {}
                                THEN [form EXCEPT ![c] = ClosedForm]
                                ELSE form
    /\ UNCHANGED <<invoices, allocations, audit, rows, aging, accessVars>>

\* onSubmit from the insert of the allocation rows on
SubmitAllocations(c) ==
    /\ inflight.submit[c] # {}
    /\ \E allocOk \in BOOLEAN :
        LET newRows == inflight.submit[c]
            fkOk == \A r \in newRows : PaymentExists(r.payment_id)
        IN  IF allocOk /\ fkOk
            THEN /\ allocations' = allocations \cup newRows
                 /\ form' = [form EXCEPT ![c] = ClosedForm]
            ELSE /\ allocations' = allocations
                 /\ form' = [form EXCEPT ![c] = ErrForm]
    /\ inflight' = [inflight EXCEPT !.submit[c] = {}]
    /\ UNCHANGED <<invoices, payments, audit, rows, aging, accessVars>>

\* deletePayment up to and including the delete of the allocations
DeleteAllocations(id) ==
    /\ id \in DOMAIN payments
    /\ id \notin inflight.delete
    /\ \E allocOk \in BOOLEAN :
        IF ~allocOk
        THEN UNCHANGED <<allocations, inflight>>
        ELSE /\ allocations' = allocations \ AllocationsOfPayment(id)
             /\ inflight' = [inflight EXCEPT !.delete = @ \cup {id}]
    /\ UNCHANGED <<invoices, payments, audit, form, rows, aging, accessVars>>

\* deletePayment from the delete of the payment row on
DeletePaymentRow(id) ==
    /\ id \in inflight.delete
    /\ \E paymentOk \in BOOLEAN :
        payments' = IF paymentOk /\ ~PaymentReferenced(id)
                    THEN RemoveKey(payments, id)
                    ELSE payments
    /\ inflight' = [inflight EXCEPT !.delete = @ \ {id}]
    /\ UNCHANGED <<invoices, allocations, audit, form, rows, aging, accessVars>>

DeleteStep(c) ==
    \/ LedgerLoad(c)
    \/ \E id \in InvoiceIds, value \in Amounts \ {0} :
            inflight.submit[c] = {} /\ setAllocFor(c, id, value)
    \/ \E amount \in Amounts : SubmitPayment(c, amount)
    \/ SubmitAllocations(c)

NextDelete ==
    \/ Len(invoices) < MaxLedgerInvoices /\ CreateInvoice
    \/ \E c \in AllCallers : DeleteStep(c)
    \/ \E id \in PaymentIds : DeleteAllocations(id)
    \/ \E id \in PaymentIds : DeletePaymentRow(id)

SpecDelete == Init /\ [][NextDelete]_vars

\* ------------------------------------- the payment form on any balances
\* totals and amounts that are not whole cents: 0.006, 0.01, 0.016
FineAmounts == {6, Cents(1), 16}

FormFineStep(c) ==
    \/ LoadInvoices(c)
    \/ \E id \in InvoiceIds, value \in FineAmounts \cup {-Cents(1), Cents(3)} :
            setAllocFor(c, id, value)
    \/ clearAllocations(c)
    \/ \E id \in InvoiceIds, watchAmount \in FineAmounts \cup {0, Cents(2)} :
            allocateRemainingTo(c, id, watchAmount)

NextForm ==
    \/ CreateInvoice
    \/ fetchRows
    \/ \E id \in InvoiceIds, newTotal \in FineAmounts :
            Len(audit) < MaxAudit /\ updateTotal(id, newTotal)
    \/ \E c \in Callers : FormFineStep(c)

SpecForm == Init /\ [][NextForm]_vars

\* ------------------------------------------ invoices/new with the stay dates
\* dates are day numbers; the form's date inputs give any two of them
StayDays == 1..2

\* daysBetween: Math.max(0, ceil(ms / day))
daysBetween(startYMD, endYMD) == Max(0, endYMD - startYMD)

\* schema: check_in and check_out are required strings, rate_night a number
\* >= 0; nothing relates check_out to check_in
schema(values) ==
    /\ values.check_in \in StayDays
    /\ values.check_out \in StayDays
    /\ values.rate_night >= 0

\* the row onSubmit inserts: previewTotal = max(0, nights * rate)
StayInvoiceRow(values) ==
    LET nights == daysBetween(values.check_in, values.check_out)
        previewTotal == Max(0, nights * values.rate_night)
        subtotal == Max(0, previewTotal)
    IN  [subtotal |-> subtotal, tax |-> 0, balance |-> subtotal,
         status |-> "open", deleted_at |-> FALSE,
         check_in |-> values.check_in, check_out |-> values.check_out,
         rate_night |-> values.rate_night]

\* handleSubmit(onSubmit): the resolver lets onSubmit run only with values
\* the schema accepts
SubmitInvoice(values) ==
    /\ Len(invoices) < MaxInvoices
    /\ \E insertOk \in BOOLEAN :
        invoices' = IF schema(values) /\ insertOk
                    THEN Append(invoices, StayInvoiceRow(values))
                    ELSE invoices
    /\ UNCHANGED <<payments, allocations, audit, form, rows, aging, inflight,
                   accessVars>>

NextEntry ==
    \/ \E ci \in StayDays, co \in StayDays, rate \in TypedAmounts :
            SubmitInvoice([check_in |-> ci, check_out |-> co, rate_night |-> rate])
    \/ \E c \in Callers : LedgerStep(c)

SpecEntry == Init /\ [][NextEntry]_vars

\* ================================================================ properties
\* paid-to-date of an invoice: the sum of its allocation rows
paid_to_date(i) == allocatedSum(i)

\* the status the derivation rule gives a total and a paid-to-date
ExpectedStatus(t, paid) ==
    IF paid <= 0 THEN "open" ELSE IF paid < t THEN "partial" ELSE "paid"

\* what is left of a payment to allocate
Unallocated(p) == payments[p].amount - SumAmounts(AllocationsOfPayment(p))

\* the audit trail holds a void_invoice event of invoice i
VoidLogged(i) ==
    \E k \in 1..Len(audit) :
        audit[k].invoice_id = i /\ audit[k].action = "void_invoice"

\* C1: in every reachable state every invoice that is not tombstoned has
\* balance = max(0, total - sum of its allocations).
C1_BalanceIsTotalMinusAllocations ==
    \A i \in DOMAIN invoices :
        ~invoices[i].deleted_at =>
            invoices[i].balance = Max(0, total(invoices[i]) - paid_to_date(i))

\* C2: in every reachable state the status of every invoice that is not void
\* is the one its total and paid-to-date derive: open when nothing is paid,
\* partial below the total, paid from the total on.
C2_StatusFollowsPaidToDate ==
    \A i \in DOMAIN invoices :
        invoices[i].status # "void" =>
            invoices[i].status = ExpectedStatus(total(invoices[i]), paid_to_date(i))

C4_InvoiceNeverOverAllocated ==
    \A i \in DOMAIN invoices : paid_to_date(i) <= total(invoices[i])

\* C5: a recording that allocates a to an invoice with total T and paid-to-date
\* P persists nothing when P + a > T, and otherwise leaves the invoice with
\* balance T - P - a and status partial (P + a < T) or paid (P + a = T).
C5_ApplyPaymentChecksInvoiceRoom ==
    [][\A c \in AllCallers, amount \in Amounts :
          onSubmit(c, amount) =>
              \A i \in DOMAIN form[c].alloc :
                  LET a == form[c].alloc[i]
                      T == total(invoices[i])
                      P == paid_to_date(i)
                  IN  a > 0 =>
                        IF P + a > T
                        THEN UNCHANGED <<payments, allocations, invoices>>
                        ELSE allocations' # allocations =>
                               /\ invoices'[i].balance = T - P - a
                               /\ invoices'[i].status =
                                      IF P + a < T THEN "partial" ELSE "paid"]_vars

\* C6: a recording persists all of its effects or none: the payment row, one
\* allocation row for each target, and the balance and status of each target
\* invoice.
C6_ApplyPaymentAllOrNothing ==
    [][\A c \in AllCallers, amount \in Amounts :
          onSubmit(c, amount) =>
              \/ UNCHANGED <<payments, allocations, invoices>>
              \/ LET newRows == AllocationRows(form[c].alloc, FreshPaymentId)
                 IN  /\ payments' # payments
                     /\ allocations' = allocations \cup newRows
                     /\ \A r \in newRows :
                          LET i == r.invoice_id
                          IN  /\ invoices'[i].balance =
                                    Max(0, total(invoices'[i]) - paid_to_date(i)')
                              /\ invoices'[i].status =
                                    ExpectedStatus(total(invoices'[i]),
                                                   paid_to_date(i)')]_vars

\* C7: no invoice carries allocations of two payments that together exceed its
\* total.
C7_NoConcurrentOverAllocation ==
    \A i \in DOMAIN invoices :
        Cardinality({a.payment_id : a \in AllocationsOfInvoice(i)}) >= 2
            => paid_to_date(i) <= total(invoices[i])

\* C8: an invoice whose void has been recorded has no allocations.
C8_VoidedInvoiceTakesNoPayment ==
    \A i \in DOMAIN invoices : VoidLogged(i) => AllocationsOfInvoice(i) = {}

\* a step of voidInvoice(id) that wrote the invoice row
VoidApplied(id) ==
    voidInvoice(id) /\ (invoices' # invoices \/ audit' # audit)

\* C9: a void of an invoice removes exactly the allocations of that invoice,
\* sets subtotal, tax and balance to 0 and status to void, changes no payment
\* row and no other invoice, and so gives every payment back what it had
\* allocated to the invoice.
C9_VoidInvoiceFrame ==
    [][\A id \in InvoiceIds :
          VoidApplied(id) =>
              /\ allocations' = {a \in allocations : a.invoice_id # id}
              /\ payments' = payments
              /\ invoices'[id].subtotal = 0
              /\ invoices'[id].tax = 0
              /\ invoices'[id].balance = 0
              /\ invoices'[id].status = "void"
              /\ \A j \in DOMAIN invoices \ {id} : invoices'[j] = invoices[j]
              /\ \A p \in DOMAIN payments :
                    Unallocated(p)' = Unallocated(p) +
                        SumAmounts({a \in AllocationsOfPayment(p) :
                                        a.invoice_id = id})]_vars

\* C9 witness: a recorded void of an invoice that left it void with nothing
\* allocated, beside a payment that has room to allocate again and still
\* holds its allocation to another invoice.
C9_Witness ==
    \E i \in DOMAIN invoices :
        /\ VoidLogged(i)
        /\ invoices[i].status = "void"
        /\ AllocationsOfInvoice(i) = {}
        /\ \E p \in DOMAIN payments :
              /\ Unallocated(p) > 0
              /\ \E a \in AllocationsOfPayment(p) : a.invoice_id # i

\* a step of updateTotal(id, newTotal) that wrote the invoice row
UpdateApplied(id, newTotal) ==
    updateTotal(id, newTotal) /\ (invoices' # invoices \/ audit' # audit)

\* C10: an update of the total of an invoice that is not void leaves the
\* allocations as they are, sets the total to the new total, the balance to
\* max(0, new total - paid-to-date) and the status to the derived one; below
\* the paid-to-date that is balance 0 and status paid.
C10_UpdateTotalFrame ==
    [][\A id \in InvoiceIds, newTotal \in Amounts :
          (UpdateApplied(id, newTotal) /\ invoices[id].status # "void") =>
              /\ allocations' = allocations
              /\ total(invoices'[id]) = newTotal
              /\ invoices'[id].balance = Max(0, newTotal - paid_to_date(id))
              /\ invoices'[id].status = ExpectedStatus(newTotal, paid_to_date(id))
              /\ (newTotal < paid_to_date(id) =>
                    invoices'[id].balance = 0 /\ invoices'[id].status = "paid")]_vars

\* C11: a deletePayment of a payment that still has allocations changes
\* neither the payments nor the allocations; only a payment without
\* allocations is removed.
C11_DeletePaymentRefusesAllocated ==
    [][\A id \in PaymentIds :
          (deletePayment(id) /\ AllocationsOfPayment(id) # {})
              => UNCHANGED <<payments, allocations>>]_vars

\* C12: an operation that cannot write its audit event persists nothing: every
\* step of updateTotal, voidInvoice or the payment form's onSubmit that changes
\* an invoice or the allocations also adds an event to the audit trail.
C12_NoLedgerChangeWithoutAudit ==
    [][/\ \A id \in InvoiceIds, newTotal \in Amounts :
            (updateTotal(id, newTotal) /\ invoices' # invoices) => audit' # audit
       /\ \A id \in InvoiceIds :
            (voidInvoice(id) /\ (invoices' # invoices \/ allocations' # allocations))
                => audit' # audit
       /\ \A c \in AllCallers, amount \in Amounts :
            (onSubmit(c, amount) /\ allocations' # allocations)
                => audit' # audit]_vars

\* the events a step added to the audit trail
NewEvents == SubSeq(audit', Len(audit) + 1, Len(audit'))

\* C13: every successful operation adds its audit events: an updateTotal one
\* update_total event with the total before the update and the new total, a
\* voidInvoice one void_invoice event, and a payment recording one
\* payment_applied event for each invoice it allocated to.
C13_EveryOperationAudited ==
    [][/\ \A id \in InvoiceIds, newTotal \in Amounts :
            (updateTotal(id, newTotal) /\ invoices' # invoices) =>
                NewEvents = <<AuditEvent(id, "update_total",
                                [old_total |-> total(invoices[id]),
                                 new_total |-> newTotal])>>
       /\ \A id \in InvoiceIds :
            (voidInvoice(id) /\ invoices' # invoices) =>
                /\ Len(NewEvents) = 1
                /\ NewEvents[1].invoice_id = id
                /\ NewEvents[1].action = "void_invoice"
       /\ \A c \in AllCallers, amount \in Amounts :
            (onSubmit(c, amount) /\ allocations' # allocations) =>
                \A a \in allocations' \ allocations :
                    Cardinality({k \in 1..Len(NewEvents) :
                        /\ NewEvents[k].invoice_id = a.invoice_id
                        /\ NewEvents[k].action = "payment_applied"}) = 1]_vars

C15_VoidIsIrreversible ==
    [][\A i \in DOMAIN invoices :
          invoices[i].status = "void" => invoices'[i].status = "void"]_vars

\* C16: an updateTotal of a tombstoned invoice changes neither the invoice
\* rows nor the allocations nor the audit trail.
C16_UpdateTotalOfTombstonedFails ==
    [][\A id \in InvoiceIds, newTotal \in Amounts :
          (/\ id \in DOMAIN invoices
           /\ invoices[id].deleted_at
           /\ updateTotal(id, newTotal))
              => UNCHANGED <<invoices, allocations, audit>>]_vars

\* C16 witness: the invoices page still lists an invoice that has been
\* tombstoned since the list was loaded, with an allocation on it and an
\* event in its trail.
C16_Witness ==
    \E id \in DOMAIN rows :
        /\ invoices[id].deleted_at
        /\ AllocationsOfInvoice(id) # {}
        /\ audit # <<>>

\* The hotel scope of the acting user.  invoices.hotel_id: invoice i is an
\* invoice of hotel i; member_hotels: the user is a member of hotel 1 only.
\* The invoices page and the record-payment page read neither.
HotelOf(id) == id
MemberHotels == {1}
ScopeInvoices == {i \in InvoiceIds : HotelOf(i) \in MemberHotels}

\* C17: an operation on an invoice outside the caller's scope changes nothing:
\* no updateTotal or voidInvoice of such an invoice, and no payment recording
\* that allocates to one, changes invoices, payments, allocations or audit.
C17_OutOfScopeIsRejected ==
    [][/\ \A id \in InvoiceIds \ ScopeInvoices, newTotal \in Amounts :
            updateTotal(id, newTotal)
                => UNCHANGED <<invoices, payments, allocations, audit>>
       /\ \A id \in InvoiceIds \ ScopeInvoices :
            voidInvoice(id)
                => UNCHANGED <<invoices, payments, allocations, audit>>
       /\ \A c \in AllCallers, amount \in Amounts :
            (/\ onSubmit(c, amount)
             /\ \E i \in DOMAIN form[c].alloc \ ScopeInvoices : form[c].alloc[i] > 0)
                => UNCHANGED <<invoices, payments, allocations, audit>>]_vars

\* ============================================================ aging report
\* The report reads the ledger and never writes it.  Its input here is any
\* ledger of up to MaxInvoices invoices, each as created (balance = subtotal)
\* or void (everything 0), with a due date and a company.
Today == 100
AgeSamples == {-5, 30, 31, 60, 61, 90, 91}
DueDates == {Today - a : a \in AgeSamples}
\* "" stands for an invoice without a company (companies(name) is null)
CompanyNames == {"Acme", "Zenith", ""}
HotelIds == {HotelOf(i) : i \in InvoiceIds}

AgingInvoiceRows ==
    {[subtotal |-> b, tax |-> 0, balance |-> b, status |-> st,
      deleted_at |-> FALSE, due_date |-> d, company_name |-> c] :
        b \in Amounts, st \in {"open", "void"}, d \in DueDates, c \in CompanyNames}

AgingLedgers ==
    {l \in UNION {[1..n -> AgingInvoiceRows] : n \in 0..MaxInvoices} :
        \A i \in DOMAIN l : l[i].status = "void" => l[i].balance = 0}

InitAging ==
    /\ invoices \in AgingLedgers
    /\ payments = EmptyFn
    /\ allocations = {}
    /\ audit = <<>>
    /\ form = [c \in AllCallers |-> ClosedForm]
    /\ rows = EmptyFn
    /\ aging = ClosedAging
    /\ inflight = NoRequests
    /\ members = NoMember
    /\ expenses = NoExpenses
    /\ gate = ClosedGate
    /\ client = ClosedClient

\* the bucket boundaries with the last one left out
Bucket_no91(age_days, balance) ==
    IF balance = 0 THEN "Paid/Zero"
    ELSE IF age_days <= 30 THEN "Current (0-30)"
    ELSE IF age_days <= 60 THEN "31-60"
    ELSE "61-90"

\* the classifier of rpc aging_report_detail
Bucket(age_days, balance) ==
    IF balance = 0 THEN "Paid/Zero"
    ELSE IF age_days <= 30 THEN "Current (0-30)"
    ELSE IF age_days <= 60 THEN "31-60"
    ELSE IF age_days <= 90 THEN "61-90"
    ELSE "91+"

\* rpc aging_report_detail: one Detail row for every invoice that is neither
\* tombstoned nor void
aging_report_detail ==
    LET ids == {i \in DOMAIN invoices :
                    ~invoices[i].deleted_at /\ invoices[i].status # "void"}
        RECURSIVE Rows(_)
        Rows(n) ==
            IF n = 0 THEN <<>>
            ELSE IF n \in ids
                 THEN Append(Rows(n - 1),
                        [id |-> n, due_date |-> invoices[n].due_date,
                         balance |-> invoices[n].balance,
                         bucket |-> Bucket(Today - invoices[n].due_date,
                                           invoices[n].balance)])
                 ELSE Rows(n - 1)
    IN  Rows(Len(invoices))

\* ------------------------------------------------ aging report: the page
\* the effect that loads hotels and membership: mine.length ? mine : all hotels
LoadMembership ==
    /\ \E mine \in SUBSET HotelIds, loadOk \in BOOLEAN :
        aging' = IF loadOk
                 THEN [aging EXCEPT !.hotels = HotelIds,
                                    !.myHotelIds =
                                        IF mine # {} THEN mine ELSE HotelIds]
                 ELSE aging
    /\ UNCHANGED <<invoices, payments, allocations, audit, form, rows, inflight,
                   accessVars>>

\* select id, hotel_id, companies(name) from invoices where id in ids
InvoiceMetaOf(ids) ==
    [i \in ids |-> [hotel_id |-> HotelOf(i),
                    company_name |-> invoices[i].company_name]]

\* a load that also records the view in the audit trail
LoadAging_logged ==
    /\ \E rpcOk \in BOOLEAN :
        LET data == aging_report_detail
            ids  == {data[k].id : k \in DOMAIN data}
        IN  /\ aging' = IF rpcOk
                        THEN [aging EXCEPT !.details = data,
                                           !.invoiceMeta = InvoiceMetaOf(ids)]
                        ELSE aging
            /\ audit' = IF rpcOk THEN Append(audit, AuditEvent(0, "aging_report", <<>>))
                        ELSE audit
    /\ UNCHANGED <<invoices, payments, allocations, form, rows, inflight, accessVars>>

\* the effect that loads the detail rows and then the meta of their invoices;
\* setDetails has run when the second request fails
LoadAging ==
    /\ \E rpcOk \in BOOLEAN, metaOk \in BOOLEAN :
        LET data == aging_report_detail
            ids  == {data[k].id : k \in DOMAIN data}
        IN  IF ~rpcOk
            THEN metaOk /\ aging' = aging
            ELSE IF ~metaOk /\ ids # {}
                 THEN aging' = [aging EXCEPT !.details = data]
                 ELSE metaOk /\ aging' = [aging EXCEPT !.details = data,
                                             !.invoiceMeta = InvoiceMetaOf(ids)]
    /\ UNCHANGED <<invoices, payments, allocations, audit, form, rows, inflight,
                   accessVars>>

\* the hotels the filter offers
visibleHotels ==
    {h \in aging.hotels : aging.myHotelIds = {} \/ h \in aging.myHotelIds}

setHotelId(h) ==
    /\ h = AllHotels \/ h \in visibleHotels
    /\ aging' = [aging EXCEPT !.hotelId = h]
    /\ UNCHANGED <<invoices, payments, allocations, audit, form, rows, inflight,
                   accessVars>>

\* invoiceMeta[d.id]?.hotel_id ?? '' and invoiceMeta[r.id]?.company_name
MetaHotel(id) ==
    IF id \in DOMAIN aging.invoiceMeta THEN aging.invoiceMeta[id].hotel_id
    ELSE NoHotel
MetaCompany(id) ==
    IF id \in DOMAIN aging.invoiceMeta THEN aging.invoiceMeta[id].company_name
    ELSE ""

\* the membership guard and the hotel filter
filtered ==
    LET guarded(d) == aging.myHotelIds = {} \/ MetaHotel(d.id) \in aging.myHotelIds
        chosen(d)  == aging.hotelId = AllHotels \/ MetaHotel(d.id) = aging.hotelId
    IN  SelectSeq(aging.details, LAMBDA d : guarded(d) /\ chosen(d))

BUCKET_ORDER == <<"Current (0-30)", "31-60", "61-90", "91+">>

\* BUCKET_ORDER.indexOf(label), with 999 for -1
OrderKey(label) ==
    IF \E k \in DOMAIN BUCKET_ORDER : BUCKET_ORDER[k] = label
    THEN (CHOOSE k \in DOMAIN BUCKET_ORDER : BUCKET_ORDER[k] = label) - 1
    ELSE 999

\* the groups in the order their buckets first occur, before the sort
RECURSIVE GroupsOf(_)
GroupsOf(f) ==
    IF f = <<>> THEN <<>>
    ELSE LET row  == f[Len(f)]
             prev == GroupsOf(SubSeq(f, 1, Len(f) - 1))
             at   == {k \in DOMAIN prev : prev[k].label = row.bucket}
         IN  IF row.bucket = "Paid/Zero" THEN prev
             ELSE IF at = {}
                  THEN Append(prev, [label |-> row.bucket, total |-> row.balance,
                                     count |-> 1, rows |-> <<row.id>>])
                  ELSE [prev EXCEPT ![CHOOSE k \in at : TRUE] =
                           [@ EXCEPT !.total = @ + row.balance,
                                     !.count = @ + 1,
                                     !.rows = Append(@, row.id)]]

\* [...].sort((a, b) => key(a) - key(b)): a stable sort by bucket order
RECURSIVE SortGroups(_)
SortGroups(g) ==
    IF g = <<>> THEN <<>>
    ELSE LET x    == g[1]
             rest == SortGroups(Tail(g))
             k    == Cardinality({j \in DOMAIN rest :
                                    OrderKey(rest[j].label) < OrderKey(x.label)})
         IN  SubSeq(rest, 1, k) \o <<x>> \o SubSeq(rest, k + 1, Len(rest))

\* the groups without the sort
groups_unsorted(f) == GroupsOf(f)

groups(f) == SortGroups(GroupsOf(f))

RECURSIVE SumField(_, _)
SumField(g, field) ==
    IF g = <<>> THEN 0 ELSE g[1][field] + SumField(Tail(g), field)

grandTotal == SumField(groups(filtered), "total")
grandCount == SumField(groups(filtered), "count")

\* meta?.company_name || '(no company)'
CompanyLabel(id) ==
    IF MetaCompany(id) = "" THEN "(no company)" ELSE MetaCompany(id)

\* String.localeCompare on the names that occur: punctuation sorts before
\* letters
Collation == <<"(no company)", "Acme", "Zenith">>
localeCompare(a, b) ==
    (CHOOSE k \in DOMAIN Collation : Collation[k] = a)
        - (CHOOSE k \in DOMAIN Collation : Collation[k] = b)

NewCompanyRow(name) ==
    [company |-> name, count |-> 0, b0_30 |-> 0, b31_60 |-> 0, b61_90 |-> 0,
     b91p |-> 0, total |-> 0]

\* one invoice added to the row of its company
AddToCompanyRow(a, r) ==
    LET amt == r.balance
    IN  [a EXCEPT !.count = @ + 1,
                  !.b0_30  = IF r.bucket = "Current (0-30)" THEN @ + amt ELSE @,
                  !.b31_60 = IF r.bucket = "31-60" THEN @ + amt ELSE @,
                  !.b61_90 = IF r.bucket = "61-90" THEN @ + amt ELSE @,
                  !.b91p   = IF r.bucket = "91+" THEN @ + amt ELSE @,
                  !.total  = @ + amt]

\* the rows of agg in insertion order, before the sort
RECURSIVE CompanyRowsOf(_)
CompanyRowsOf(f) ==
    IF f = <<>> THEN <<>>
    ELSE LET r    == f[Len(f)]
             prev == CompanyRowsOf(SubSeq(f, 1, Len(f) - 1))
             name == CompanyLabel(r.id)
             at   == {k \in DOMAIN prev : prev[k].company = name}
         IN  IF r.bucket = "Paid/Zero" THEN prev
             ELSE IF at = {}
                  THEN Append(prev, AddToCompanyRow(NewCompanyRow(name), r))
                  ELSE [prev EXCEPT ![CHOOSE k \in at : TRUE] =
                           AddToCompanyRow(@, r)]

\* the comparator with the totals ascending
CompanyBefore_ascending(x, y) ==
    x.total - y.total < 0
        \/ (x.total - y.total = 0 /\ localeCompare(x.company, y.company) < 0)

\* (x, y) => y.total - x.total || x.company.localeCompare(y.company) is < 0
CompanyBefore(x, y) ==
    y.total - x.total < 0
        \/ (y.total - x.total = 0 /\ localeCompare(x.company, y.company) < 0)

\* rows.sort(...): a stable sort by that comparator
RECURSIVE SortCompanyRows(_)
SortCompanyRows(c) ==
    IF c = <<>> THEN <<>>
    ELSE LET x    == c[1]
             rest == SortCompanyRows(Tail(c))
             k    == Cardinality({j \in DOMAIN rest : CompanyBefore(rest[j], x)})
         IN  SubSeq(rest, 1, k) \o <<x>> \o SubSeq(rest, k + 1, Len(rest))

byCompanyAllBuckets == SortCompanyRows(CompanyRowsOf(filtered))

NextAging ==
    \/ LoadMembership
    \/ LoadAging
    \/ \E h \in HotelIds \cup {AllHotels} : setHotelId(h)

SpecAging == InitAging /\ [][NextAging]_vars

\* ------------------------------------------------ aging report: properties
\* the rows of f in bucket label, and their balances summed
InBucket(f, label) == {k \in DOMAIN f : f[k].bucket = label}

RECURSIVE SumBalances(_, _)
SumBalances(f, ks) ==
    IF ks = {} THEN 0
    ELSE LET k == CHOOSE x \in ks : TRUE
         IN  f[k].balance + SumBalances(f, ks \ {k})

Aged(f) == {k \in DOMAIN f : f[k].bucket # "Paid/Zero"}

\* C18: every loaded detail row is of an invoice that is not void and carries
\* exactly the bucket of its age_days = today - due_date: Paid/Zero for
\* balance 0, else Current (0-30) up to 30, 31-60, 61-90, and 91+ above 90;
\* Paid/Zero rows are in no group and in no total or count.
C18_AgingBuckets ==
    /\ \A k \in DOMAIN aging.details :
          LET d   == aging.details[k]
              age == Today - d.due_date
          IN  /\ invoices[d.id].status # "void"
              /\ d.bucket = "Paid/Zero" <=> d.balance = 0
              /\ d.bucket = "Current (0-30)" <=> (d.balance # 0 /\ age <= 30)
              /\ d.bucket = "31-60" <=> (d.balance # 0 /\ age >= 31 /\ age <= 60)
              /\ d.bucket = "61-90" <=> (d.balance # 0 /\ age >= 61 /\ age <= 90)
              /\ d.bucket = "91+" <=> (d.balance # 0 /\ age > 90)
    /\ \A i \in DOMAIN groups(filtered) : groups(filtered)[i].label # "Paid/Zero"
    /\ grandCount = Cardinality({k \in DOMAIN filtered : filtered[k].balance # 0})
    /\ grandTotal = SumBalances(filtered, DOMAIN filtered)

\* C18 witness: the loaded rows hold one invoice 91 days past due in 91+ and
\* one with balance 0 tagged Paid/Zero, and the report counts one invoice.
C18_Witness ==
    /\ \E k \in DOMAIN aging.details :
          /\ Today - aging.details[k].due_date = 91
          /\ aging.details[k].bucket = "91+"
    /\ \E k \in DOMAIN filtered : filtered[k].bucket = "Paid/Zero"
    /\ grandCount = 1

\* C19: the bucket summary has one row for each bucket that has invoices, in
\* the order Current, 31-60, 61-90, 91+; a row's total is the sum of the
\* balances and its count the number of the invoices of its bucket; the grand
\* total and count are the sums over the rows.
C19_SummarizeRows ==
    LET g == groups(filtered)
    IN  /\ \A i, j \in DOMAIN g :
              i < j => OrderKey(g[i].label) < OrderKey(g[j].label)
        /\ \A k \in DOMAIN BUCKET_ORDER :
              (InBucket(filtered, BUCKET_ORDER[k]) # {})
                  <=> (\E i \in DOMAIN g : g[i].label = BUCKET_ORDER[k])
        /\ \A i \in DOMAIN g :
              /\ \E k \in DOMAIN BUCKET_ORDER : g[i].label = BUCKET_ORDER[k]
              /\ g[i].total = SumBalances(filtered, InBucket(filtered, g[i].label))
              /\ g[i].count = Cardinality(InBucket(filtered, g[i].label))
        /\ grandTotal = SumBalances(filtered, Aged(filtered))
        /\ grandCount = Cardinality(Aged(filtered))

\* C19 witness: two rows in the summary, the invoice of the later bucket
\* loaded first.
C19_Witness ==
    /\ Len(groups(filtered)) = 2
    /\ Len(filtered) = 2
    /\ OrderKey(filtered[1].bucket) > OrderKey(filtered[2].bucket)
    /\ filtered[2].bucket # "Paid/Zero"

\* C20: the company breakdown has one row for each company that has aged
\* invoices, a row's total is the sum of its four bucket amounts, its count
\* leaves Paid/Zero invoices out, and the rows are sorted by total descending
\* and by name ascending among equal totals.
C20_BreakdownByCompany ==
    LET c == byCompanyAllBuckets
        of(name) == {k \in Aged(filtered) : CompanyLabel(filtered[k].id) = name}
    IN  /\ \A i, j \in DOMAIN c : i # j => c[i].company # c[j].company
        /\ \A k \in Aged(filtered) :
              \E i \in DOMAIN c : c[i].company = CompanyLabel(filtered[k].id)
        /\ \A i \in DOMAIN c :
              /\ c[i].total = c[i].b0_30 + c[i].b31_60 + c[i].b61_90 + c[i].b91p
              /\ c[i].total = SumBalances(filtered, of(c[i].company))
              /\ c[i].count = Cardinality(of(c[i].company))
              /\ c[i].count > 0
        /\ \A i, j \in DOMAIN c :
              i < j => \/ c[i].total > c[j].total
                       \/ /\ c[i].total = c[j].total
                          /\ localeCompare(c[i].company, c[j].company) < 0

\* C20 witness: two companies with different totals, the smaller one loaded
\* first.
C20_Witness ==
    /\ Len(byCompanyAllBuckets) = 2
    /\ byCompanyAllBuckets[1].total > byCompanyAllBuckets[2].total
    /\ Len(filtered) = 2
    /\ CompanyLabel(filtered[1].id) = byCompanyAllBuckets[2].company

\* the page holds a complete load: detail rows and the meta of their invoices
AgingLoaded == aging.details # <<>> /\ DOMAIN aging.invoiceMeta # {}

C22_VoidOnlyByVoidInvoice ==
    [][/\ \A i \in DOMAIN invoices :
            (invoices[i].status # "void" /\ invoices'[i].status = "void")
                => voidInvoice(i)
       /\ \A id \in InvoiceIds :
            (updateTotal(id, 0) /\ id \in DOMAIN invoices
                /\ invoices[id].status # "void")
                => invoices'[id].status # "void"]_vars

\* C23: a voidInvoice that does not complete removes nothing: every step of
\* voidInvoice that leaves the invoice row as it was (the update failed or
\* matched no row, as for a tombstoned invoice) leaves the allocations as
\* they were.
C23_VoidInvoiceIsAtomic ==
    [][\A id \in InvoiceIds :
          (voidInvoice(id) /\ invoices' = invoices)
              => allocations' = allocations]_vars

\* C24: a payment row is removed only after its allocations: in every state,
\* also between the two requests of deletePayment and after a failed request,
\* every allocation references an existing payment; and every step that
\* removes a payment row removes one that has no allocations and whose
\* allocations a deletePayment has deleted before.
C24_PaymentDeletedAfterAllocations ==
    /\ [](\A a \in allocations : a.payment_id \in DOMAIN payments)
    /\ [][\A p \in DOMAIN payments :
              p \notin DOMAIN payments' =>
                  /\ AllocationsOfPayment(p) = {}
                  /\ p \in inflight.delete]_vars

\* C24 witness: a deletePayment has deleted the allocations of a payment and
\* has its second request still to send, while another payment holds an
\* allocation and an earlier payment has been removed.
C24_Witness ==
    /\ \E p \in inflight.delete : p \in DOMAIN payments
    /\ allocations # {}
    /\ Cardinality(DOMAIN payments) < inflight.issued

\* C25: no invalid ledger entity is persisted: every invoice stored has
\* check_out not earlier than check_in, every payment stored has amount > 0
\* and every allocation stored has amount > 0.
C25_NoInvalidEntityPersisted ==
    /\ \A i \in DOMAIN invoices : invoices[i].check_out >= invoices[i].check_in
    /\ \A p \in DOMAIN payments : payments[p].amount > 0
    /\ \A a \in allocations : a.amount > 0

\* C26: in the record-payment form every entered allocation of an invoice
\* lies between 0 and the balance the form loaded for it, and an
\* allocateRemainingTo that raises the allocated total leaves it at most the
\* entered payment amount, adding min(room on the invoice, remaining amount).
C26_FormAllocationsClamped ==
    /\ [](\A c \in AllCallers : \A i \in DOMAIN form[c].alloc :
              /\ form[c].alloc[i] >= 0
              /\ form[c].alloc[i] <= GetOr0(form[c].invoices, i))
    /\ [][\A c \in AllCallers, id \in InvoiceIds,
            watchAmount \in FineAmounts \cup Amounts :
              (allocateRemainingTo(c, id, watchAmount) /\ form' # form) =>
                  /\ allocatedTotal(form'[c]) <= watchAmount
                  /\ allocatedTotal(form'[c]) - allocatedTotal(form[c]) =
                        Min(Max(0, GetOr0(form[c].invoices, id)
                                     - GetOr0(form[c].alloc, id)),
                            remaining(form[c], watchAmount))]_vars

\* ========================================================== access control
\* members.role of the acting user: the values the column admits, and
\* "missing" for a user without a members row
StoredRoles == {"admin", "manager", "front_desk", "staff", "missing"}
MemberRows == [role : StoredRoles, hotels : SUBSET HotelIds]

\* admin page, toggleAccess: the member_hotels row of the user and hotel h is
\* deleted when the page lists it and inserted when it does not
toggleAccess(h) ==
    /\ \E writeOk \in BOOLEAN :
        members' = IF ~writeOk THEN members
                   ELSE IF h \in members.hotels
                        THEN [members EXCEPT !.hotels = @ \ {h}]
                        ELSE [members EXCEPT !.hotels = @ \cup {h}]
    /\ UNCHANGED <<invoices, payments, allocations, audit, form, rows, aging,
                   inflight, expenses, gate, client>>

\* server-access.ts, normalizeRole
normalizeRole(role) ==
    IF role = "admin" THEN "admin"
    ELSE IF role = "manager" THEN "manager"
    ELSE IF role = "front_desk" THEN "front_desk"
    ELSE IF role = "staff" THEN "manager"
    ELSE "null"

\* the lookup with the fallback of the client pages: no rows, all hotels
getMemberRoleAndHotels_fallback ==
    LET role == normalizeRole(members.role)
    IN  IF role = "null" THEN [role |-> "null", hotelIds |-> {}]
        ELSE IF role = "admin" THEN [role |-> role, hotelIds |-> HotelIds]
        ELSE [role |-> role,
              hotelIds |-> IF members.hotels = {} THEN HotelIds
                           ELSE members.hotels]

\* server-access.ts, getMemberRoleAndHotels, when none of its queries fails
getMemberRoleAndHotels ==
    LET role == normalizeRole(members.role)
    IN  IF role = "null" THEN [role |-> "null", hotelIds |-> {}]
        ELSE IF role = "admin" THEN [role |-> role, hotelIds |-> HotelIds]
        ELSE [role |-> role, hotelIds |-> members.hotels]

\* ------------------------------------------------ api/expenses/create: POST
MaxExpenses == 2
METHODS == {"check", "ach", "card", "other"}

\* what a request can carry.  authError: auth.getUser fails; user: a user is
\* signed in; lookupOk: the queries of getMemberRoleAndHotels succeed;
\* parseOk: the body is JSON; hotel_id NoHotel: none given; amountFinite
\* FALSE: Number(body.amount) is NaN or infinite
GoodRequest(h) ==
    [authError |-> FALSE, user |-> TRUE, lookupOk |-> TRUE, parseOk |-> TRUE,
     hotel_id |-> h, vendor_id |-> TRUE, expense_date |-> TRUE,
     amountFinite |-> TRUE, amount |-> Cents(1), method |-> "check",
     insertOk |-> TRUE]

\* one thing wrong with a request
Faults == {"none", "authError", "noUser", "lookupFails", "badJson", "noHotel",
           "noVendor", "noDate", "amountNaN", "amountZero", "amountNegative",
           "methodUnknown", "methodMissing", "insertFails"}

Break(req, fault) ==
    CASE fault = "none"           -> req
      [] fault = "authError"      -> [req EXCEPT !.authError = TRUE]
      [] fault = "noUser"         -> [req EXCEPT !.user = FALSE]
      [] fault = "lookupFails"    -> [req EXCEPT !.lookupOk = FALSE]
      [] fault = "badJson"        -> [req EXCEPT !.parseOk = FALSE]
      [] fault = "noHotel"        -> [req EXCEPT !.hotel_id = NoHotel]
      [] fault = "noVendor"       -> [req EXCEPT !.vendor_id = FALSE]
      [] fault = "noDate"         -> [req EXCEPT !.expense_date = FALSE]
      [] fault = "amountNaN"      -> [req EXCEPT !.amountFinite = FALSE]
      [] fault = "amountZero"     -> [req EXCEPT !.amount = 0]
      [] fault = "amountNegative" -> [req EXCEPT !.amount = -Cents(1)]
      [] fault = "methodUnknown"  -> [req EXCEPT !.method = "cash"]
      [] fault = "methodMissing"  -> [req EXCEPT !.method = ""]
      [] fault = "insertFails"    -> [req EXCEPT !.insertOk = FALSE]

\* the requests tried: for each hotel, with up to two things wrong
Requests ==
    {Break(Break(GoodRequest(h), f1), f2) :
        h \in HotelIds, f1 \in Faults, f2 \in Faults}

\* the status POST answers with and whether it inserts
PostOutcome(req) ==
    LET roleInfo == getMemberRoleAndHotels
        no(status) == [status |-> status, insert |-> FALSE]
    IN  IF req.authError THEN no(500)
        ELSE IF ~req.user THEN no(401)
        ELSE IF ~req.lookupOk THEN no(500)
        ELSE IF roleInfo.role \notin {"manager", "admin"} THEN no(403)
        ELSE IF ~req.parseOk THEN no(500)
        ELSE IF req.hotel_id = NoHotel THEN no(400)
        ELSE IF ~req.vendor_id THEN no(400)
        ELSE IF ~req.expense_date THEN no(400)
        ELSE IF ~req.amountFinite \/ req.amount <= 0 THEN no(400)
        ELSE IF req.method \notin METHODS THEN no(400)
        ELSE IF req.hotel_id \notin roleInfo.hotelIds THEN no(403)
        ELSE IF ~req.insertOk THEN no(500)
        ELSE [status |-> 200, insert |-> TRUE]

ExpenseRow(req) ==
    [hotel_id |-> req.hotel_id, amount |-> req.amount, method |-> req.method]

POST(req) ==
    /\ Len(expenses.table) < MaxExpenses
    /\ LET out == PostOutcome(req)
       IN  expenses' = [table |-> IF out.insert
                                  THEN Append(expenses.table, ExpenseRow(req))
                                  ELSE expenses.table,
                        status |-> out.status]
    /\ UNCHANGED <<invoices, payments, allocations, audit, form, rows, aging,
                   inflight, members, gate, client>>

InitExpense ==
    /\ invoices = <<>>
    /\ payments = EmptyFn
    /\ allocations = {}
    /\ audit = <<>>
    /\ form = [c \in AllCallers |-> ClosedForm]
    /\ rows = EmptyFn
    /\ aging = ClosedAging
    /\ inflight = NoRequests
    /\ members \in MemberRows
    /\ expenses = NoExpenses
    /\ gate = ClosedGate
    /\ client = ClosedClient

NextExpense ==
    \/ \E h \in HotelIds : toggleAccess(h)
    \/ \E req \in Requests : POST(req)

SpecExpense == InitExpense /\ [][NextExpense]_vars

\* ---------------------------------------------- access control: properties
\* the hotels the stored rows give the user: every hotel for an admin, the
\* member_hotels rows otherwise
StoredHotels == IF members.role = "admin" THEN HotelIds ELSE members.hotels

\* the request is one the route may serve; the stored role staff counts as
\* manager, as normalizeRole has it
Accepted(req) ==
    /\ ~req.authError /\ req.user
    /\ members.role \in {"manager", "admin", "staff"}
    /\ req.hotel_id # NoHotel /\ req.vendor_id /\ req.expense_date
    /\ req.amountFinite /\ req.amount > 0
    /\ req.method \in METHODS
    /\ req.hotel_id \in StoredHotels

\* C27: the expense-create route inserts an expense only for an authenticated
\* caller with role manager or admin who supplies hotel_id, vendor_id,
\* expense_date, a finite amount > 0, a valid method and a hotel_id of the
\* caller's accessible hotels; every other request is answered 401, 403 or
\* 400 and inserts nothing.
C27_ExpenseCreateGuards ==
    [][\A req \in Requests :
          POST(req) =>
              /\ expenses'.table # expenses.table => Accepted(req)
              /\ ~Accepted(req) =>
                    /\ expenses'.table = expenses.table
                    /\ expenses'.status \in {401, 403, 400}]_vars

\* C27 as amended: as C27, but a request whose session, permissions or body
\* cannot be read is answered 500; 401 answers a request without a user, 403
\* one without the role or the hotel, 400 one with a missing or invalid field.
C27_ExpenseCreateGuardsOr500 ==
    [][\A req \in Requests :
          POST(req) =>
              LET unreadable == req.authError \/ ~req.lookupOk \/ ~req.parseOk
                  st == expenses'.status
              IN  /\ expenses'.table # expenses.table =>
                        /\ Accepted(req)
                        /\ st = 200
                        /\ expenses'.table =
                              Append(expenses.table, ExpenseRow(req))
                  /\ ~Accepted(req) =>
                        /\ expenses'.table = expenses.table
                        /\ st \in {401, 403, 400, 500}
                        /\ st = 500 => unreadable
                        /\ st = 401 => ~req.user
                        /\ ~unreadable => st \in {401, 403, 400}]_vars

\* C27 witness: an expense of a hotel the user's member_hotels rows name is in
\* the table, and the last request was refused with 403.
C27_Witness ==
    /\ Len(expenses.table) = 1
    /\ members.role \in {"manager", "staff"}
    /\ expenses.table[1].hotel_id \in members.hotels
    /\ members.hotels # HotelIds
    /\ expenses.status = 403

\* ------------------------------------------------ payments: the access gate
\* useGateForPayments.  allowed is the state of the hook ("null" = checking);
\* every run of its effect has its own ignore flag, set by the cleanup of
\* that run.  React runs the effect once per mount, and under StrictMode
\* runs it, cleans it up and runs it again on the same component.
MaxRuns == 2

\* what the rpcs and the user metadata can hand the gate: nothing, a role, a
\* role in another spelling, a longer name
RawRoles == {"", "admin", " Manager ", "manager_x", "front_desk", "staff"}

\* payments page, normalizeRole on a string: input.trim().toLowerCase()
gateNormalizeRole(input) == IF input = " Manager " THEN "manager" ELSE input

\* finalRole.startsWith(prefix), on the names that occur
StartsWith(str, prefix) == str = prefix \/ (prefix = "manager" /\ str = "manager_x")

\* ok, as the effect computes it from the two roles
GateOk(roleStr, metaRole) ==
    LET finalRole == IF roleStr # "" THEN roleStr ELSE metaRole
    IN  \/ finalRole = "manager"
        \/ finalRole = "admin"
        \/ StartsWith(finalRole, "manager")
        \/ StartsWith(finalRole, "admin")

NewRun == [pc |-> "getSession", ignore |-> FALSE, roleStr |-> ""]

\* every cleanup that has not run yet runs
CleanedUp(runs) == [k \in DOMAIN runs |-> [runs[k] EXCEPT !.ignore = TRUE]]

MountGate ==
    /\ ~gate.mounted
    /\ gate.runs = <<>>
    /\ gate' = [mounted |-> TRUE, allowed |-> "null", runs |-> <<NewRun>>]
    /\ UNCHANGED <<invoices, payments, allocations, audit, form, rows, aging,
                   inflight, members, expenses, client>>

\* StrictMode: the effect is cleaned up and run again right after the mount,
\* before any request of the first run has returned
RerunGateEffect ==
    /\ gate.mounted
    /\ Len(gate.runs) < MaxRuns
    /\ \A k \in DOMAIN gate.runs : gate.runs[k].pc = "getSession"
    /\ gate' = [gate EXCEPT !.runs = Append(CleanedUp(@), NewRun)]
    /\ UNCHANGED <<invoices, payments, allocations, audit, form, rows, aging,
                   inflight, members, expenses, client>>

UnmountGate ==
    /\ gate.mounted
    /\ gate' = [gate EXCEPT !.mounted = FALSE, !.runs = CleanedUp(@)]
    /\ UNCHANGED <<invoices, payments, allocations, audit, form, rows, aging,
                   inflight, members, expenses, client>>

\* the decision of run k without its ignore test
SetAllowed_always(k, ok) == IF ok THEN "true" ELSE "false"

\* if (!ignore) setAllowed(ok), for run k
SetAllowed(k, ok) ==
    IF ~gate.runs[k].ignore THEN (IF ok THEN "true" ELSE "false") ELSE gate.allowed

\* run k of the effect goes on from the request it waited for
GateStep(k) ==
    /\ k \in DOMAIN gate.runs
    /\ LET run == gate.runs[k]
       IN  \/ /\ run.pc = "getSession"
              /\ \E session \in BOOLEAN :
                    gate' = [gate EXCEPT !.runs[k].pc =
                                IF session THEN "is_admin" ELSE "login"]
           \/ /\ run.pc = "is_admin"
              /\ \E isAdm \in BOOLEAN :
                    IF ~run.ignore /\ isAdm
                    THEN gate' = [gate EXCEPT !.allowed = SetAllowed(k, TRUE),
                                              !.runs[k].pc = "done"]
                    ELSE gate' = [gate EXCEPT !.runs[k].pc = "get_my_role"]
           \/ /\ run.pc = "get_my_role"
              /\ \E r \in RawRoles :
                    gate' = [gate EXCEPT !.runs[k].pc = "getUser",
                                         !.runs[k].roleStr = gateNormalizeRole(r)]
           \/ /\ run.pc = "getUser"
              /\ \E meta \in RawRoles :
                    gate' = [gate EXCEPT
                        !.allowed = SetAllowed(k,
                                       GateOk(run.roleStr, gateNormalizeRole(meta))),
                        !.runs[k].pc = "done",
                        !.runs[k].roleStr = ""]
    /\ UNCHANGED <<invoices, payments, allocations, audit, form, rows, aging,
                   inflight, members, expenses, client>>

\* what PaymentsPage renders
PaymentsPage ==
    IF ~gate.mounted THEN "nothing"
    ELSE IF gate.allowed # "null" /\ gate.allowed = "false" THEN "no access"
    ELSE IF gate.allowed # "true" THEN "loading"
    ELSE "PaymentsContent"

NextGate ==
    \/ MountGate
    \/ RerunGateEffect
    \/ UnmountGate
    \/ \E k \in 1..MaxRuns : GateStep(k)

SpecGate == Init /\ [][NextGate]_vars

\* C28: the gate of the payments page goes from checking (allowed = null) to
\* one decision and keeps it: no step changes a decision made, the payments
\* content is rendered only where allowed = true, and no step that follows the
\* unmount sets allowed.
C28_GateDecidesOnce ==
    /\ [][gate.allowed # "null" => gate'.allowed = gate.allowed]_vars
    /\ [](PaymentsPage = "PaymentsContent" => gate.allowed = "true")
    /\ [][~gate.mounted => gate'.allowed = gate.allowed]_vars

\* C28 witness: the page was unmounted while checking; a run of the effect
\* that was cleaned up has finished with its requests and allowed is still
\* null.
C28_Witness ==
    /\ ~gate.mounted
    /\ gate.allowed = "null"
    /\ \E k \in DOMAIN gate.runs : gate.runs[k].pc = "done" /\ gate.runs[k].ignore

\* ------------------------------------------ the client pages' role and scope
\* The signed-in user is the user of the members row. The two functions the
\* pages call on the database are not part of the repository: get_my_role is
\* taken to answer the stored role, or nothing when there is no row, and
\* is_admin to answer whether the stored role is admin.
get_my_role == IF members.role = "missing" THEN "" ELSE members.role
is_admin == members.role = "admin"

\* what the role key of the user metadata may hold
MetaRoles == {"", "admin", "manager", "front_desk", "staff"}

\* app/page.tsx: a role string the dashboard knows, staff as front_desk
DashboardDetected(val) ==
    IF val \in {"admin", "manager", "front_desk", "staff"}
    THEN (IF val = "staff" THEN "front_desk" ELSE val)
    ELSE "null"

\* app/page.tsx, role detection effect: get_my_role when the call succeeds,
\* else the user metadata, else front_desk
DashboardRoleDetection ==
    /\ ~client.dashboard.roleReady
    /\ \E rpcOk \in BOOLEAN, metaRole \in MetaRoles :
        LET fromRpc  == IF rpcOk THEN DashboardDetected(get_my_role) ELSE "null"
            detected == IF fromRpc # "null" THEN fromRpc
                        ELSE DashboardDetected(metaRole)
        IN  client' = [client EXCEPT
                !.dashboard.role = IF detected = "null" THEN "front_desk"
                                   ELSE detected,
                !.dashboard.roleReady = TRUE]
    /\ UNCHANGED <<invoices, payments, allocations, audit, form, rows, aging,
                   inflight, members, expenses, gate>>

canSeeManagerStuff ==
    client.dashboard.role = "manager" \/ client.dashboard.role = "admin"

\* expenses page and companies page, access gate: members.role, staff as
\* manager, and is_admin when the row gives no role
PageRole ==
    LET raw == IF members.role = "missing" THEN "" ELSE members.role
        r   == IF raw = "admin" THEN "admin"
               ELSE IF raw = "manager" THEN "manager"
               ELSE IF raw = "front_desk" THEN "front_desk"
               ELSE IF raw = "staff" THEN "manager"
               ELSE "null"
    IN  IF r = "null" THEN (IF is_admin THEN "admin" ELSE "front_desk") ELSE r

ExpensesAccessGate ==
    /\ client.expenses.authLoading
    /\ \E cancelled \in BOOLEAN :
        client' = IF cancelled THEN client
                  ELSE [client EXCEPT !.expenses.role = PageRole,
                                      !.expenses.authLoading = FALSE]
    /\ UNCHANGED <<invoices, payments, allocations, audit, form, rows, aging,
                   inflight, members, expenses, gate>>

CompaniesAccessGate ==
    /\ client.companies.authLoading
    /\ \E cancelled \in BOOLEAN :
        client' = IF cancelled THEN client
                  ELSE [client EXCEPT !.companies.role = PageRole,
                                      !.companies.authLoading = FALSE]
    /\ UNCHANGED <<invoices, payments, allocations, audit, form, rows, aging,
                   inflight, members, expenses, gate>>

\* the gated pages render for these roles
allowed == {"manager", "admin"}

\* the member_hotels rows of the user when there are any, else every hotel
MineOrAll == IF members.hotels # {} THEN members.hotels ELSE HotelIds

\* app/page.tsx, refreshMyHotels with the user id set
refreshMyHotels ==
    /\ client' = [client EXCEPT !.dashboard.myHotelIds = MineOrAll,
                                !.dashboard.loaded = TRUE]
    /\ UNCHANGED <<invoices, payments, allocations, audit, form, rows, aging,
                   inflight, members, expenses, gate>>

\* expenses page, lookups effect: the membership, or nothing when a query
\* throws
ExpensesLoadLookups ==
    /\ \E thrown \in BOOLEAN :
        client' = IF thrown THEN client
                  ELSE [client EXCEPT !.expenses.myHotelIds = MineOrAll,
                                      !.expenses.loaded = TRUE]
    /\ UNCHANGED <<invoices, payments, allocations, audit, form, rows, aging,
                   inflight, members, expenses, gate>>

\* aging report page, hotels and membership effect
AgingLoadMembership ==
    /\ \E thrown \in BOOLEAN :
        client' = IF thrown THEN client
                  ELSE [client EXCEPT !.aging.myHotelIds = MineOrAll,
                                      !.aging.loaded = TRUE]
    /\ UNCHANGED <<invoices, payments, allocations, audit, form, rows, aging,
                   inflight, members, expenses, gate>>

NextAccess ==
    \/ DashboardRoleDetection
    \/ ExpensesAccessGate
    \/ CompaniesAccessGate
    \/ refreshMyHotels
    \/ ExpensesLoadLookups
    \/ AgingLoadMembership

SpecAccess == InitExpense /\ [][NextAccess]_vars

\* the server's decision for the stored role
ServerManagerLevel == normalizeRole(members.role) \in {"manager", "admin"}

\* C29: once the dashboard and the gated pages have resolved the role, each of
\* them gives manager-level access exactly when the server's normalizeRole of
\* the stored role does, whatever the stored role is.
C29_RoleResolutionConsistent ==
    /\ client.dashboard.roleReady => (canSeeManagerStuff <=> ServerManagerLevel)
    /\ ~client.expenses.authLoading =>
           (client.expenses.role \in allowed <=> ServerManagerLevel)
    /\ ~client.companies.authLoading =>
           (client.companies.role \in allowed <=> ServerManagerLevel)

\* C30: for a user who is not an admin, the hotels each client page has loaded
\* as accessible are the hotelIds getMemberRoleAndHotels returns, so none when
\* the user has no member_hotels row.
C30_HotelScopeConsistent ==
    members.role # "admin" =>
        /\ client.dashboard.loaded =>
               client.dashboard.myHotelIds = getMemberRoleAndHotels.hotelIds
        /\ client.expenses.loaded =>
               client.expenses.myHotelIds = getMemberRoleAndHotels.hotelIds
        /\ client.aging.loaded =>
               client.aging.myHotelIds = getMemberRoleAndHotels.hotelIds
====
